---- MODULE Spec2Model ----
(***************************************************************************)
(* Model of the face-pro proof-of-life backend (backend/src/main.rs):      *)
(* the process-wide session mapping behind one reader-writer lock, the     *)
(* per-connection task handle_socket, and the session/challenge FSM that   *)
(* the streaming (telemetry), buffered (challengeStart / FrameBatch / End) *)
(* and feedback paths drive.                                               *)
(*                                                                         *)
(* Granularity.  A handler runs from the acquisition of the write guard    *)
(* to the point where the guard is dropped as one step: while the guard is *)
(* held no other task can read or write the mapping, so the interleavings  *)
(* left out are not observable.  Every message a step sends is recorded in *)
(* `out` together with `held`, which says whether the guard was alive at   *)
(* the send.  The one place where a step ends with the guard still alive   *)
(* is a second write().await inside the scope of the first guard           *)
(* (main.rs 488-495, 743-751): the task is then parked at that await.      *)
(*                                                                         *)
(* Numbers.  Motion scores are carried in thousandths (0.02 is 20).        *)
(* Challenge ids "c<n>" are carried as the number n.  Session ids, tokens  *)
(* and attempt ids are opaque and carried as small numbers.                *)
(***************************************************************************)
EXTENDS Integers, Sequences, FiniteSets, TLC

\* ---------------------------------------------------------------- bounds
MaxSessions == 2
MaxConns == 2
MaxAttempt == 2
MaxChallengeId == 2
\* completed + failed is not capped by the code; the model stops resolving here
MaxResolved == 4
\* motion_hits is a saturating u32; the model stops counting here
MaxHits == 15
\* telemetry messages that carry a motion score arrive in runs of this many
TelemetryBurst == 15
\* frames per challengeFrameBatch, and batches per buffer
BatchLen == 10
\* the width of a timestamp (u64 in the code): timestamps are 0 .. 2^TsBits - 1
TsBits == 3
\* PadConfig, scaled to that width (defaults 5000, 1000, 32 in pad.rs 19-21)
replay_window_ms == 2
allow_clock_skew_ms == 1
max_recent_hashes == 2
\* the decodable images a client sends
MaxImage == 2
\* the image whose frames the history field pad_mark follows
MarkedImage == 1
MaxBatches == 1

\* ----------------------------------------------------- program constants
HistoryCap == 30
MotionHitThreshold == 20
RequiredChallenges == 3
FeedbackRequired == 2
PromptTimeoutMs == 5000
MinFrames == 10
duplicate_hamming_threshold == 0

SessionIds == 1..MaxSessions
Conns == 1..MaxConns
AttemptIds == 1..MaxAttempt
ChallengeIds == 1..MaxChallengeId

\* Option::None for the numeric options of the messages
NoScore == 0 - 1
\* a motion score well above every threshold of the streaming path (0.05)
HiScore == 50
MotionInputs == {NoScore, HiScore}

\* protocol.rs ChallengeKind
ChallengeKind == {"blink", "open-mouth", "turn-left", "turn-right", "head-up", "head-down"}
\* the list `all` the handlers pick the next kind from
AllKinds == <<"open-mouth", "turn-left", "turn-right", "head-up">>

\* ------------------------------------------------------ sequence helpers
RECURSIVE SumSeq(_)
SumSeq(s) == IF s = <<>> THEN 0 ELSE Head(s) + SumSeq(Tail(s))

RECURSIVE MaxSeq(_)
MaxSeq(s) == IF s = <<>> THEN 0 ELSE LET m == MaxSeq(Tail(s)) IN IF Head(s) > m THEN Head(s) ELSE m

LastN(s, n) == SubSeq(s, Len(s) - n + 1, Len(s))

CountAbove(s, t) == Cardinality({i \in 1..Len(s) : s[i] > t})

Abs(x) == IF x < 0 THEN 0 - x ELSE x

\* all.retain(|k| k != kind)
Retain(kind) == SelectSeq(AllKinds, LAMBDA k : k # kind)

\* ------------------------------------------------------- TelemetryState
NewTele == [motion_hits |-> 0, motion_scores |-> <<>>, face_positions |-> <<>>]

\* a reset that clears nothing
KeepTele(t) == t

TeleReset(t) == NewTele

\* a push that drops the new score once the history is full
KeepOldestScores(t, score) ==
    LET pushed == Append(t.motion_scores, score)
    IN  [t EXCEPT !.motion_scores = IF Len(pushed) > HistoryCap
                                    THEN SubSeq(pushed, 1, HistoryCap) ELSE pushed]

add_motion_score(t, score) ==
    LET pushed == Append(t.motion_scores, score)
    IN  [t EXCEPT !.motion_scores = IF Len(pushed) > HistoryCap THEN Tail(pushed) ELSE pushed]

add_face_position(t, p) ==
    LET pushed == Append(t.face_positions, p)
    IN  [t EXCEPT !.face_positions = IF Len(pushed) > HistoryCap THEN Tail(pushed) ELSE pushed]

has_significant_motion(t) ==
    IF Len(t.motion_scores) < 10 THEN FALSE
    ELSE LET recent == LastN(t.motion_scores, 10)
             max_score == MaxSeq(recent)
         IN  \* max > 0.05 and max > avg * 3, avg = sum / 10
             max_score > 50 /\ max_score * 10 > SumSeq(recent) * 3

has_facial_motion(t) ==
    IF Len(t.motion_scores) < 15 THEN FALSE
    ELSE LET recent == LastN(t.motion_scores, 15)
         IN  \* avg > 0.04 and at least 8 of the 15 above 0.03
             SumSeq(recent) > 40 * 15 /\ CountAbove(recent, 30) >= 8

validate_turn_movement(t) ==
    IF Len(t.face_positions) < 20 THEN FALSE
    ELSE Abs(t.face_positions[Len(t.face_positions)][1] - t.face_positions[1][1]) > 15

validate_head_movement(t) ==
    IF Len(t.face_positions) < 20 THEN FALSE
    ELSE Abs(t.face_positions[Len(t.face_positions)][2] - t.face_positions[1][2]) > 10

\* the admission table of the Telemetry handler
StreamingOk(kind, t) ==
    CASE kind = "blink"      -> t.motion_hits >= 10 /\ has_significant_motion(t)
      [] kind = "open-mouth" -> t.motion_hits >= 15 /\ has_facial_motion(t)
      [] kind = "turn-left"  -> t.motion_hits >= 20 /\ validate_turn_movement(t)
      [] kind = "turn-right" -> t.motion_hits >= 20 /\ validate_turn_movement(t)
      [] kind = "head-up"    -> t.motion_hits >= 25 /\ validate_head_movement(t)
      [] kind = "head-down"  -> t.motion_hits >= 25 /\ validate_head_movement(t)

\* ------------------------------------------------------------ SessionFsm
Idle == [state |-> "Idle", challenge_id |-> 0, kind |-> "none"]
Passed == [state |-> "Passed", challenge_id |-> 0, kind |-> "none"]
Failed == [state |-> "Failed", challenge_id |-> 0, kind |-> "none"]
Prompting(id, kind) == [state |-> "Prompting", challenge_id |-> id, kind |-> kind]

\* SessionFsm::new()
NewFsm == [state |-> Idle, completed |-> 0, failed |-> 0]

NoBuffer == [open |-> FALSE]

\* ------------------------------------------------------------- pad.rs
\* u64 arithmetic: values are 0 .. U64 - 1
U64 == 2 ^ TsBits
Timestamps == 0 .. U64 - 1

\* frame payloads: 0 is a payload image::load_from_memory rejects, 1..MaxImage are
\* decodable images
Payloads == 0 .. MaxImage
load_from_memory(bytes) == bytes # 0

\* the perceptual hash of an image: a function of the image, not injective
phash_u64(img) == img % 2

\* (a ^ b).count_ones()
RECURSIVE hamming_distance_u64(_, _)
hamming_distance_u64(a, b) ==
    IF a = 0 /\ b = 0 THEN 0
    ELSE (IF a % 2 # b % 2 THEN 1 ELSE 0) + hamming_distance_u64(a \div 2, b \div 2)

\* the small grayscale plane of an image, as one luminance value 0..255
downscale_gray(img) == (img * 85) % 256

NoTs == 0 - 1
NoGray == 0 - 1
\* PadState::default()
NewPadState == [last_ts |-> NoTs, recent_hashes |-> <<>>, last_small_gray |-> NoGray]

PadSignals(suspected_replay, duplicate_hash, flicker) ==
    [suspected_replay |-> suspected_replay, duplicate_hash |-> duplicate_hash, flicker |-> flicker]

\* `while let Some(&(_, t)) = front() { if ts.saturating_sub(t) > window { pop_front } else { break } }`
RECURSIVE EvictOld(_, _)
EvictOld(ring, ts) ==
    IF ring = <<>> THEN ring
    ELSE LET age == IF ts >= Head(ring).ts THEN ts - Head(ring).ts ELSE 0
         IN  IF age > replay_window_ms THEN EvictOld(Tail(ring), ts) ELSE ring

\* a ring that is never capped
KeepAll(ring) == ring

\* `if recent_hashes.len() > max_recent_hashes { pop_front() }`
CapRing(ring) == IF Len(ring) > max_recent_hashes THEN Tail(ring) ELSE ring

\* the part of process_frame that runs when the image decodes (pad.rs 55-76):
\* the state afterwards, duplicate_hash and flicker (in thousandths)
ProcessImage(state, ts, img) ==
    LET hash == phash_u64(img)
        kept == EvictOld(state.recent_hashes, ts)
        duplicate_hash == \E k \in 1..Len(kept) :
                             hamming_distance_u64(kept[k].hash, hash) <= duplicate_hamming_threshold
        ring == CapRing(Append(kept, [hash |-> hash, ts |-> ts]))
        small == downscale_gray(img)
        flicker == IF state.last_small_gray = NoGray THEN 0
                   ELSE (Abs(state.last_small_gray - small) * 1000) \div 255
    IN  [state |-> [state EXCEPT !.recent_hashes = ring, !.last_small_gray = small],
         duplicate_hash |-> duplicate_hash, flicker |-> flicker]

\* process_frame after `ts + allow_clock_skew_ms` was evaluated to sum
ProcessFrameWith(state, ts, bytes, sum) ==
    LET suspected_replay == state.last_ts # NoTs /\ sum < state.last_ts
        stamped == [state EXCEPT !.last_ts = ts]
    IN  IF load_from_memory(bytes)
        THEN LET r == ProcessImage(stamped, ts, bytes)
             IN  [panicked |-> FALSE, state |-> r.state,
                  signals |-> PadSignals(suspected_replay, r.duplicate_hash, r.flicker)]
        ELSE [panicked |-> FALSE, state |-> stamped,
              signals |-> PadSignals(suspected_replay, FALSE, 0)]

\* process_frame: what a call can do.  `ts + config.allow_clock_skew_ms` is a u64
\* addition: when it overflows, a build with overflow checks panics there and a
\* build without them wraps around.
process_frame(state, ts, bytes) ==
    LET sum == ts + allow_clock_skew_ms
    IN  IF state.last_ts = NoTs \/ sum < U64
        THEN {ProcessFrameWith(state, ts, bytes, sum)}
        ELSE {[panicked |-> TRUE, state |-> state, signals |-> PadSignals(FALSE, FALSE, 0)],
              ProcessFrameWith(state, ts, bytes, sum % U64)}

\* history: one earlier decodable frame of the session (its image and timestamp)
NoMark == [img |-> 0, ts |-> NoTs]

\* history: how many scores and positions were pushed to the session's telemetry
\* by the history specification
NoArrivals == [scores |-> 0, positions |-> 0]

\* SessionMetrics::default()
NewMetrics == [frames_received |-> 0, throttled |-> 0]

\* create_session: a fresh id, token and attempt id (uuids, here the id itself).
\* `results` is a history field: the result messages sent for the current attempt;
\* `pad_mark` is a history field: one earlier frame the PAD engine processed.
NewSession(id) ==
    [id |-> id, token |-> id, fsm |-> NewFsm, tele |-> NewTele,
     challenge_buffer |-> NoBuffer, current_attempt_id |-> id, results |-> 0,
     metrics |-> NewMetrics, arrivals |-> NoArrivals,
     pad_state |-> NewPadState, pad_mark |-> NoMark]

\* ------------------------------------------------------- server messages
HelloAckMsg == [type |-> "helloAck", challenges |-> AllKinds]
ErrorMsg(code) == [type |-> "error", code |-> code]
PromptMsg(id, kind, aid) ==
    [type |-> "prompt", id |-> id, kind |-> kind, timeout_ms |-> PromptTimeoutMs, attempt_id |-> aid]
ResultMsg(aid, passed) == [type |-> "result", attempt_id |-> aid, passed |-> passed]

FrameAckMsg(ts, pad) == [type |-> "frameAck", ts |-> ts, pad |-> pad]
NoPad == [present |-> FALSE]

\* a message together with whether the write guard was alive when it was sent
Sent(msg, held) == [msg |-> msg, held |-> held]

VARIABLES
    sessions,   \* AppState.sessions: the HashMap from session id to Session
    first,      \* the key sessions.values_mut().next() yields (0: the map is empty)
    lock,       \* the connection whose write guard is alive between steps (0: none)
    pc,         \* where each connection task stands
    bound,      \* the session id of each connection's hello (0: none)
    out,        \* the messages the last step sent, and the connection that sent them
    now,        \* Instant::now(), in milliseconds
    last_frame_at,  \* each connection task's last_frame_at (NoInstant: None)
    accepted    \* history: per connection, the frames accepted and when the first was

vars == <<sessions, first, lock, pc, bound, out, now, last_frame_at, accepted>>

\* the client message a step dispatched, where a property has to tell it
NoInput == [type |-> "none"]
ChallengeInput(type, attempt_id, challenge_id) ==
    [type |-> type, attempt_id |-> attempt_id, challenge_id |-> challenge_id]

HelloInput(session_id, token) == [type |-> "hello", session_id |-> session_id, token |-> token]

StepIn(c, inp, msgs) == [conn |-> c, inp |-> inp, msgs |-> msgs]
Step(c, msgs) == StepIn(c, NoInput, msgs)

NoInstant == 0 - 1
NoneAccepted == [since |-> NoInstant, count |-> 0]

Init ==
    /\ sessions = <<>>
    /\ first = 0
    /\ lock = 0
    /\ pc = [c \in Conns |-> "closed"]
    /\ bound = [c \in Conns |-> 0]
    /\ out = Step(0, <<>>)
    /\ now = 0
    /\ last_frame_at = [c \in Conns |-> NoInstant]
    /\ accepted = [c \in Conns |-> NoneAccepted]

\* state.sessions.write().await / read().await completes only when no guard is alive
LockFree == lock = 0

\* ------------------------------------------------------------ HTTP surface
create_session ==
    /\ LockFree
    /\ Len(sessions) < MaxSessions
    \* bound on the environment: sessions are created before any of them is used
    /\ \A i \in DOMAIN sessions : sessions[i] = NewSession(i)
    /\ LET id == Len(sessions) + 1
       IN  /\ sessions' = Append(sessions, NewSession(id))
           \* where the new key lands in the map's iteration order is up to the hasher
           /\ first' \in (IF first = 0 THEN {id} ELSE {first, id})
    /\ out' = Step(0, <<>>)
    /\ UNCHANGED <<lock, pc, bound, now, last_frame_at, accepted>>

\* ------------------------------------------------------------- handshake
Min(a, b) == IF a < b THEN a ELSE b

\* bound on the environment: the client of connection c names its own session, the
\* c-th created (the last created when there are fewer), or an unknown id
HelloSessionIds(c) == {Min(c, Len(sessions)), MaxSessions + 1}

\* a handshake that checks the session id and not the token
HelloWithoutTokenCheck(c) ==
    /\ pc[c] = "closed"
    /\ LockFree
    /\ \E session_id \in HelloSessionIds(c) : \E token \in {0, session_id} :
         IF session_id \in DOMAIN sessions
         THEN /\ pc' = [pc EXCEPT ![c] = "acked"]
              /\ bound' = [bound EXCEPT ![c] = session_id]
              /\ out' = StepIn(c, HelloInput(session_id, token), <<Sent(HelloAckMsg, FALSE)>>)
         ELSE /\ pc' = [pc EXCEPT ![c] = "closed"]
              /\ bound' = [bound EXCEPT ![c] = 0]
              /\ out' = StepIn(c, HelloInput(session_id, token),
                               <<Sent(ErrorMsg("unauthorized"), FALSE)>>)
    /\ UNCHANGED <<sessions, first, lock, now, last_frame_at, accepted>>

\* a client connects (ws_upgrade spawns handle_socket) and its first message is a
\* hello: token check under the read guard, then helloAck
Hello(c) ==
    /\ pc[c] = "closed"
    /\ LockFree
    /\ \E session_id \in HelloSessionIds(c) : \E token \in {0, session_id} :
         LET ok == session_id \in DOMAIN sessions /\ sessions[session_id].token = token
         IN  IF ok
             THEN /\ pc' = [pc EXCEPT ![c] = "acked"]
                  /\ bound' = [bound EXCEPT ![c] = session_id]
                  /\ out' = StepIn(c, HelloInput(session_id, token), <<Sent(HelloAckMsg, FALSE)>>)
             ELSE /\ pc' = [pc EXCEPT ![c] = "closed"]
                  /\ bound' = [bound EXCEPT ![c] = 0]
                  /\ out' = StepIn(c, HelloInput(session_id, token),
                                   <<Sent(ErrorMsg("unauthorized"), FALSE)>>)
    /\ UNCHANGED <<sessions, first, lock, now, last_frame_at, accepted>>

\* a handshake that answers the error and goes on to the prompt
BadHandshakeGoesOn(c) ==
    /\ pc[c] = "closed"
    /\ pc' = [pc EXCEPT ![c] = "acked"]
    /\ bound' = [bound EXCEPT ![c] = 0]
    /\ \E first_message \in {"binary", "text"} :
         out' = StepIn(c, [type |-> first_message], <<Sent(ErrorMsg("bad-handshake"), FALSE)>>)
    /\ UNCHANGED <<sessions, first, lock, now, last_frame_at, accepted>>

\* a client connects and its first message is binary, or text that is not a hello
BadHandshake(c) ==
    /\ pc[c] = "closed"
    /\ pc' = [pc EXCEPT ![c] = "closed"]
    /\ bound' = [bound EXCEPT ![c] = 0]
    /\ \E first_message \in {"binary", "text"} :
         out' = StepIn(c, [type |-> first_message], <<Sent(ErrorMsg("bad-handshake"), FALSE)>>)
    /\ UNCHANGED <<sessions, first, lock, now, last_frame_at, accepted>>

\* the initial prompt: sent and recorded with the write guard alive
InitialPrompt(c) ==
    /\ pc[c] = "acked"
    /\ LockFree
    /\ pc' = [pc EXCEPT ![c] = "open"]
    /\ IF first # 0
       THEN LET s == sessions[first]
            IN  /\ out' = Step(c, <<Sent(PromptMsg(1, "open-mouth", s.current_attempt_id), TRUE)>>)
                /\ sessions' = [sessions EXCEPT ![first].fsm.state = Prompting(1, "open-mouth")]
       ELSE /\ out' = Step(c, <<>>)
            /\ sessions' = sessions
    \* `let mut last_frame_at: Option<Instant> = None;`
    /\ last_frame_at' = [last_frame_at EXCEPT ![c] = NoInstant]
    /\ accepted' = [accepted EXCEPT ![c] = NoneAccepted]
    /\ UNCHANGED <<first, lock, bound, now>>

\* a hello after the handshake is ignored
HelloAgain(c) ==
    /\ pc[c] = "open"
    /\ out' = Step(c, <<>>)
    /\ UNCHANGED <<sessions, first, lock, pc, bound, now, last_frame_at, accepted>>

\* Message::Close, or the transport ends: the task returns
Close(c) ==
    /\ pc[c] = "open"
    /\ pc' = [pc EXCEPT ![c] = "closed"]
    /\ bound' = [bound EXCEPT ![c] = 0]
    /\ out' = Step(c, <<>>)
    /\ last_frame_at' = [last_frame_at EXCEPT ![c] = NoInstant]
    /\ accepted' = [accepted EXCEPT ![c] = NoneAccepted]
    /\ UNCHANGED <<sessions, first, lock, now>>

\* ---------------------------------------------------- streaming path
\* The Telemetry arm up to the end of its first `if let` (main.rs 402-487) on
\* session s: the session afterwards, the messages sent, and `done`.
\* a counter that takes every scored message as a hit
CountEveryScore(t, ms) == [t EXCEPT !.motion_hits = @ + 1]

\* `if ms >= 0.02 { motion_hits = motion_hits.saturating_add(1) }`
CountHit(t, ms) == IF ms >= MotionHitThreshold THEN [t EXCEPT !.motion_hits = @ + 1] ELSE t

TelemetryOutcomes(s, ms) ==
    LET tele == IF ms # NoScore THEN CountHit(add_motion_score(s.tele, ms), ms) ELSE s.tele
        st == s.fsm.state
    IN  IF st.state = "Prompting" /\ StreamingOk(st.kind, tele)
        THEN LET completed == s.fsm.completed + 1
             IN  IF completed >= RequiredChallenges
                 THEN {[session |-> [s EXCEPT !.tele = TeleReset(tele), !.fsm.completed = completed,
                                              !.fsm.state = Passed],
                        msgs |-> <<>>, done |-> TRUE]}
                 ELSE \* all.choose(&mut rng) over the kinds other than the current one
                      {[session |-> [s EXCEPT !.tele = TeleReset(tele), !.fsm.completed = completed,
                                               !.fsm.state = Prompting(completed + 1, Retain(st.kind)[i])],
                        msgs |-> <<Sent(PromptMsg(completed + 1, Retain(st.kind)[i], s.current_attempt_id), TRUE)>>,
                        done |-> FALSE] : i \in 1..Len(Retain(st.kind))}
        ELSE {[session |-> [s EXCEPT !.tele = tele], msgs |-> <<>>, done |-> FALSE]}

\* `if done { state.sessions.write().await ... }` (main.rs 488-495): the result is
\* sent once this second acquisition completes
TelemetryResult(c) ==
    /\ out' = Step(c, IF first # 0
                      THEN <<Sent(ResultMsg(sessions[first].current_attempt_id, TRUE), TRUE)>>
                      ELSE <<>>)
    /\ sessions' = IF first # 0 THEN [sessions EXCEPT ![first].results = @ + 1] ELSE sessions
    /\ pc' = [pc EXCEPT ![c] = "open"]
    /\ lock' = 0
    /\ UNCHANGED <<first, bound, now, last_frame_at, accepted>>

\* n telemetry messages in a row on one connection, each dispatched as above; the
\* run ends early when a dispatch leaves `done` set
RECURSIVE TelemetryRun(_, _, _)
TelemetryRun(s, ms, n) ==
    IF n = 0 THEN {[session |-> s, msgs |-> <<>>, done |-> FALSE]}
    ELSE UNION {IF o.done THEN {o}
                ELSE {[session |-> r.session, msgs |-> o.msgs \o r.msgs, done |-> r.done] :
                        r \in TelemetryRun(o.session, ms, n - 1)} :
                o \in TelemetryOutcomes(s, ms)}

TelemetryInput(ms) == [type |-> "telemetry", motion_score |-> ms]

\* The Telemetry arm up to the end of its first guard; scores are the motionScore
\* values clients send, a scored message arrives `burst` times in a row, and
\* `recorded` tells whether `out` keeps the message.
TelemetryDispatchOf(c, scores, burst, max_hits, recorded) ==
    /\ pc[c] = "open"
    /\ \E ms \in scores :
         IF first = 0
         THEN /\ out' = StepIn(c, IF recorded THEN TelemetryInput(ms) ELSE NoInput, <<>>)
              /\ UNCHANGED <<sessions, first, lock, pc, bound, now, last_frame_at, accepted>>
         ELSE \E o \in TelemetryRun(sessions[first], ms, IF ms = NoScore THEN 1 ELSE burst) :
                /\ o.session.tele.motion_hits <= max_hits
                /\ o.session.fsm.completed + o.session.fsm.failed <= MaxResolved
                /\ sessions' = [sessions EXCEPT ![first] = o.session]
                /\ out' = StepIn(c, IF recorded THEN TelemetryInput(ms) ELSE NoInput, o.msgs)
                \* with done set the task goes on to a second write().await while the
                \* guard of this arm is still in scope
                /\ pc' = [pc EXCEPT ![c] = IF o.done THEN "tel_done" ELSE "open"]
                /\ lock' = IF o.done THEN c ELSE 0
                /\ UNCHANGED <<first, bound, now, last_frame_at, accepted>>

TelemetryDispatch(c) ==
    TelemetryDispatchOf(c, MotionInputs, TelemetryBurst, MaxHits, FALSE)

Telemetry(c) ==
    /\ LockFree
    /\ pc[c] \in {"open", "tel_done"}
    /\ IF pc[c] = "tel_done" THEN TelemetryResult(c) ELSE TelemetryDispatch(c)

\* ----------------------------------------------------- buffered path
\* protocol.rs ChallengeFrameData, as far as the analyzer reads it
Frame(face_present, motion_score, landmarks) ==
    [face_present |-> face_present, motion_score |-> motion_score, landmarks |-> landmarks]

\* a frame with a face and motionScore 0.08
GoodFrame == Frame(TRUE, 80, FALSE)

\* the batches a client sends: BatchLen frames, each with a face
BatchInputs == {[i \in 1..BatchLen |-> GoodFrame]}

\* ChallengeBufferState as challengeStart builds it
NewBuffer(attempt_id, challenge_id, start_time, total_frames, gesture_detected) ==
    [open |-> TRUE, attempt_id |-> attempt_id, challenge_id |-> challenge_id,
     start_time |-> start_time,
     frames |-> <<>>, total_expected_frames |-> total_frames, received_batches |-> 0,
     gesture_detected |-> gesture_detected]

\* a challengeStart that opens the buffer without adopting the incoming attempt id
StartWithoutAdopting(s, attempt_id, challenge_id, start_time, total_frames, gesture_detected) ==
    [s EXCEPT !.challenge_buffer =
                NewBuffer(attempt_id, challenge_id, start_time, total_frames, gesture_detected)]

ChallengeStartEffect(s, attempt_id, challenge_id, start_time, total_frames, gesture_detected) ==
    LET r == IF s.current_attempt_id # attempt_id
             THEN [s EXCEPT !.current_attempt_id = attempt_id, !.fsm = NewFsm,
                            !.tele = TeleReset(s.tele), !.challenge_buffer = NoBuffer,
                            !.results = 0]
             ELSE s
    IN  [r EXCEPT !.challenge_buffer =
                    NewBuffer(attempt_id, challenge_id, start_time, total_frames, gesture_detected)]

\* bound on the environment: the client always reports the gesture as detected (a
\* challenge fails by closing the buffer without frames)
GestureInputs == {TRUE}

\* bound on the environment: the client's startTime is the epoch
EpochStart == {0}

\* The ChallengeStart arm; gestures and start_times are the gestureDetected and
\* startTime values clients send.
ChallengeStartOf(c, gestures, start_times) ==
    /\ pc[c] = "open"
    /\ LockFree
    /\ \E attempt_id \in AttemptIds, challenge_id \in ChallengeIds, gesture_detected \in gestures,
          start_time \in start_times :
         /\ sessions' = IF first = 0 THEN sessions
                        ELSE [sessions EXCEPT ![first] =
                                ChallengeStartEffect(@, attempt_id, challenge_id, start_time,
                                                     BatchLen, gesture_detected)]
         /\ out' = StepIn(c, ChallengeInput("challengeStart", attempt_id, challenge_id), <<>>)
    /\ UNCHANGED <<first, lock, pc, bound, now, last_frame_at, accepted>>

ChallengeStart(c) == ChallengeStartOf(c, GestureInputs, EpochStart)

\* a batch handler that matches the challenge id of the open buffer only
FrameBatchByChallengeId(s, attempt_id, challenge_id, frames) ==
    IF s.challenge_buffer.open /\ s.challenge_buffer.challenge_id = challenge_id
    THEN [s EXCEPT !.challenge_buffer.frames = @ \o frames,
                   !.challenge_buffer.received_batches = @ + 1]
    ELSE s

ChallengeFrameBatchEffect(s, attempt_id, challenge_id, frames) ==
    IF s.current_attempt_id # attempt_id THEN s
    ELSE IF s.challenge_buffer.open
            /\ s.challenge_buffer.attempt_id = attempt_id
            /\ s.challenge_buffer.challenge_id = challenge_id
         THEN [s EXCEPT !.challenge_buffer.frames = @ \o frames,
                        !.challenge_buffer.received_batches = @ + 1]
         ELSE s

\* The ChallengeFrameBatch arm; batches are the frame lists clients send and
\* max_batches caps the batches the exploration sends to one buffer.
ChallengeFrameBatchOf(c, batches, max_batches) ==
    /\ pc[c] = "open"
    /\ LockFree
    /\ \E attempt_id \in AttemptIds, challenge_id \in ChallengeIds, frames \in batches :
         /\ first # 0 /\ sessions[first].challenge_buffer.open
               => sessions[first].challenge_buffer.received_batches < max_batches
         /\ sessions' = IF first = 0 THEN sessions
                        ELSE [sessions EXCEPT ![first] =
                                ChallengeFrameBatchEffect(@, attempt_id, challenge_id, frames)]
         /\ out' = StepIn(c, ChallengeInput("challengeFrameBatch", attempt_id, challenge_id), <<>>)
    /\ UNCHANGED <<first, lock, pc, bound, now, last_frame_at, accepted>>

ChallengeFrameBatchUpTo(c, max_batches) == ChallengeFrameBatchOf(c, BatchInputs, max_batches)

ChallengeFrameBatch(c) == ChallengeFrameBatchUpTo(c, MaxBatches)

\* analyze_challenge_buffer.  The rates are kept as the counts they are quotients of:
\* face_detection_rate = frames_with_face / total_frames,
\* average_motion_score = motion_sum / (1000 * total_frames).
\* `SystemTime::now() ... .as_millis() as u64 - buffer.start_time` at wall-clock
\* time t: the difference when start_time <= t; otherwise the subtraction
\* overflows, which panics in a build with overflow checks and wraps in one without
processing_time_ms(start_time, t) ==
    IF start_time <= t THEN {[panicked |-> FALSE, ms |-> t - start_time]}
    ELSE {[panicked |-> TRUE, ms |-> 0],
          [panicked |-> FALSE, ms |-> (t - start_time) % U64]}

analyze_challenge_buffer(buffer, elapsed) ==
    LET n == Len(buffer.frames)
    IN  [total_frames |-> n,
         processing_time_ms |-> elapsed.ms,
         frames_with_face |-> Cardinality({i \in 1..n : buffer.frames[i].face_present}),
         frames_with_landmarks |-> Cardinality({i \in 1..n : buffer.frames[i].landmarks}),
         motion_sum |-> SumSeq([i \in 1..n |-> IF buffer.frames[i].motion_score = NoScore
                                               THEN 0 ELSE buffer.frames[i].motion_score])]

\* a decision that tests the quality score before the face rate
DecisionQualityFirst(buffer, analysis) ==
    LET face_ok == analysis.total_frames > 0
                   /\ 10 * analysis.frames_with_face >= 7 * analysis.total_frames
        quality_ok == analysis.total_frames > 0
                      /\ 7000 * analysis.frames_with_face + 3 * analysis.motion_sum
                            >= 6000 * analysis.total_frames
        frames_ok == analysis.total_frames >= MinFrames
        gesture_ok == buffer.gesture_detected
        passed == face_ok /\ quality_ok /\ frames_ok /\ gesture_ok
    IN  [passed |-> passed,
         reason |-> IF passed THEN "none"
                    ELSE IF ~quality_ok THEN "quality"
                    ELSE IF ~face_ok THEN "face-rate"
                    ELSE IF ~frames_ok THEN "frames"
                    ELSE "gesture"]

\* make_challenge_decision: face rate >= 0.7, quality = 0.7 rate + 0.3 motion >= 0.6,
\* at least 10 frames, gesture detected
make_challenge_decision(buffer, analysis) ==
    LET face_ok == analysis.total_frames > 0
                   /\ 10 * analysis.frames_with_face >= 7 * analysis.total_frames
        quality_ok == analysis.total_frames > 0
                      /\ 7000 * analysis.frames_with_face + 3 * analysis.motion_sum
                            >= 6000 * analysis.total_frames
        frames_ok == analysis.total_frames >= MinFrames
        gesture_ok == buffer.gesture_detected
        passed == face_ok /\ quality_ok /\ frames_ok /\ gesture_ok
    IN  [passed |-> passed,
         reason |-> IF passed THEN "none"
                    ELSE IF ~face_ok THEN "face-rate"
                    ELSE IF ~quality_ok THEN "quality"
                    ELSE IF ~frames_ok THEN "frames"
                    ELSE "gesture"]

ChallengeResultMsg(attempt_id, challenge_id, decision, analysis) ==
    [type |-> "challengeResult", attempt_id |-> attempt_id, challenge_id |-> challenge_id,
     passed |-> decision.passed, reason |-> decision.reason, analysis |-> analysis]

\* the kind of the next prompt on the buffered path: all[n % all.len()] of the kinds
\* other than the current one (open-mouth when the FSM is not Prompting)
NextKindBuffered(fsm, n) ==
    LET current_kind == IF fsm.state.state = "Prompting" THEN fsm.state.kind ELSE "open-mouth"
        all == Retain(current_kind)
    IN  all[(n % Len(all)) + 1]

\* the FSM update of challengeEnd after a passing decision (main.rs 578-606)
AdvancePassed(s) ==
    LET completed == s.fsm.completed + 1
        aid == s.current_attempt_id
    IN  IF completed >= RequiredChallenges
        THEN [session |-> [s EXCEPT !.fsm.completed = completed, !.fsm.state = Passed,
                                    !.results = @ + 1],
              msgs |-> <<Sent(ResultMsg(aid, TRUE), TRUE)>>]
        ELSE LET nk == NextKindBuffered(s.fsm, completed)
             IN  [session |-> [s EXCEPT !.fsm.completed = completed,
                                        !.fsm.state = Prompting(completed + 1, nk)],
                  msgs |-> <<Sent(PromptMsg(completed + 1, nk, aid), TRUE)>>]

\* the FSM update of challengeEnd after a failing decision (main.rs 607-635)
AdvanceFailed(s) ==
    LET failed == s.fsm.failed + 1
        resolved == s.fsm.completed + failed
        aid == s.current_attempt_id
    IN  IF resolved < RequiredChallenges
        THEN LET nk == NextKindBuffered(s.fsm, resolved)
             IN  [session |-> [s EXCEPT !.fsm.failed = failed,
                                        !.fsm.state = Prompting(resolved + 1, nk)],
                  msgs |-> <<Sent(PromptMsg(resolved + 1, nk, aid), TRUE)>>]
        ELSE LET final_passed == s.fsm.completed >= RequiredChallenges
             IN  [session |-> [s EXCEPT !.fsm.failed = failed,
                                        !.fsm.state = IF final_passed THEN Passed ELSE Failed,
                                        !.results = @ + 1],
                  msgs |-> <<Sent(ResultMsg(aid, final_passed), TRUE)>>]

\* a ChallengeEnd arm that reads the buffer and leaves it in place
EndKeepsBuffer(s, attempt_id, challenge_id, elapsed) ==
    LET buffer == s.challenge_buffer
    IN  IF ~buffer.open THEN [session |-> s, msgs |-> <<>>, panicked |-> FALSE]
        ELSE IF s.current_attempt_id = attempt_id /\ buffer.attempt_id = attempt_id
                /\ buffer.challenge_id = challenge_id
        THEN IF elapsed.panicked THEN [session |-> s, msgs |-> <<>>, panicked |-> TRUE]
             ELSE LET analysis == analyze_challenge_buffer(buffer, elapsed)
                      decision == make_challenge_decision(buffer, analysis)
                      adv == IF decision.passed THEN AdvancePassed(s) ELSE AdvanceFailed(s)
                  IN  [session |-> adv.session,
                       msgs |-> <<Sent(ChallengeResultMsg(buffer.attempt_id, buffer.challenge_id,
                                                          decision, analysis), TRUE)>> \o adv.msgs,
                       panicked |-> FALSE]
        ELSE [session |-> s, msgs |-> <<>>, panicked |-> FALSE]

\* the ChallengeEnd arm on session s, with `elapsed` the outcome of the
\* processing-time subtraction: the session afterwards, the messages sent, and
\* whether the task panicked (after the buffer was taken, before anything is sent)
ChallengeEndOutcome(s, attempt_id, challenge_id, elapsed) ==
    LET buffer == s.challenge_buffer
        taken == [s EXCEPT !.challenge_buffer = NoBuffer]
    IN  IF ~buffer.open THEN [session |-> s, msgs |-> <<>>, panicked |-> FALSE]
        ELSE IF s.current_attempt_id = attempt_id /\ buffer.attempt_id = attempt_id
                /\ buffer.challenge_id = challenge_id
        THEN IF elapsed.panicked THEN [session |-> taken, msgs |-> <<>>, panicked |-> TRUE]
             ELSE LET analysis == analyze_challenge_buffer(buffer, elapsed)
                      decision == make_challenge_decision(buffer, analysis)
                      adv == IF decision.passed THEN AdvancePassed(taken) ELSE AdvanceFailed(taken)
                  IN  [session |-> adv.session,
                       msgs |-> <<Sent(ChallengeResultMsg(buffer.attempt_id, buffer.challenge_id,
                                                          decision, analysis), TRUE)>> \o adv.msgs,
                       panicked |-> FALSE]
        ELSE [session |-> taken, msgs |-> <<>>, panicked |-> FALSE]

ChallengeEnd(c) ==
    /\ pc[c] = "open"
    /\ LockFree
    /\ \E attempt_id \in AttemptIds, challenge_id \in ChallengeIds :
         LET inp == ChallengeInput("challengeEnd", attempt_id, challenge_id)
         IN  IF first = 0
             THEN /\ out' = StepIn(c, inp, <<>>)
                  /\ sessions' = sessions
                  /\ UNCHANGED <<pc, bound>>
             ELSE \E elapsed \in IF sessions[first].challenge_buffer.open
                                 THEN processing_time_ms(sessions[first].challenge_buffer.start_time, now)
                                 ELSE processing_time_ms(0, now) :
                    LET o == ChallengeEndOutcome(sessions[first], attempt_id, challenge_id, elapsed)
                    IN  /\ o.session.fsm.completed + o.session.fsm.failed <= MaxResolved
                        /\ sessions' = [sessions EXCEPT ![first] = o.session]
                        /\ out' = StepIn(c, inp, o.msgs)
                        \* a panic ends the connection's task
                        /\ pc' = [pc EXCEPT ![c] = IF o.panicked THEN "closed" ELSE "open"]
                        /\ bound' = [bound EXCEPT ![c] = IF o.panicked THEN 0 ELSE @]
    /\ UNCHANGED <<first, lock, now, last_frame_at, accepted>>

\* ----------------------------------------------------- feedback path
\* the kinds a feedback message may name; "none" is an absent kind
FeedbackKinds == {"none", "turn-left"}

\* The Feedback arm up to the end of its first `if let` (main.rs 710-742) on session
\* s: the session afterwards, the messages sent, and `done`.
FeedbackOutcomes(s, status, ok, kind) ==
    LET st == s.fsm.state
        aid == s.current_attempt_id
        again == IF status = "continue"
                 THEN <<Sent(PromptMsg(st.challenge_id, st.kind, aid), TRUE)>> ELSE <<>>
        valid_kind == kind = "none" \/ kind = st.kind
    IN  IF st.state # "Prompting" THEN {[session |-> s, msgs |-> <<>>, done |-> FALSE]}
        ELSE IF ~(ok /\ valid_kind) THEN {[session |-> s, msgs |-> again, done |-> FALSE]}
        ELSE LET completed == s.fsm.completed + 1
             IN  IF completed >= FeedbackRequired
                 THEN {[session |-> [s EXCEPT !.fsm.completed = completed, !.fsm.state = Passed,
                                              !.results = @ + 1],
                        msgs |-> again \o <<Sent(ResultMsg(aid, TRUE), TRUE)>>,
                        done |-> TRUE]}
                 ELSE \* left or right by the parity of the clock's nanoseconds
                      {[session |-> [s EXCEPT !.fsm.completed = completed,
                                               !.fsm.state = Prompting(2, next_kind)],
                        msgs |-> again \o <<Sent(PromptMsg(2, next_kind, aid), TRUE)>>,
                        done |-> FALSE] : next_kind \in {"turn-left", "turn-right"}}

\* `if done { state.sessions.write().await ...; break }` (main.rs 743-751)
FeedbackResult(c) ==
    /\ out' = Step(c, IF first # 0
                      THEN <<Sent(ResultMsg(sessions[first].current_attempt_id, TRUE), TRUE)>>
                      ELSE <<>>)
    /\ sessions' = IF first # 0 THEN [sessions EXCEPT ![first].results = @ + 1] ELSE sessions
    /\ pc' = [pc EXCEPT ![c] = "closed"]
    /\ bound' = [bound EXCEPT ![c] = 0]
    /\ lock' = 0
    /\ UNCHANGED <<first, now, last_frame_at, accepted>>

FeedbackDispatch(c) ==
    /\ pc[c] = "open"
    /\ \E status \in {"none", "continue"}, ok \in BOOLEAN, kind \in FeedbackKinds :
         IF first = 0
         THEN /\ out' = Step(c, <<>>)
              /\ UNCHANGED <<sessions, first, lock, pc, bound, now, last_frame_at, accepted>>
         ELSE \E o \in FeedbackOutcomes(sessions[first], status, ok, kind) :
                /\ o.session.fsm.completed + o.session.fsm.failed <= MaxResolved
                /\ sessions' = [sessions EXCEPT ![first] = o.session]
                /\ out' = Step(c, o.msgs)
                /\ pc' = [pc EXCEPT ![c] = IF o.done THEN "fb_done" ELSE "open"]
                /\ lock' = IF o.done THEN c ELSE 0
                /\ UNCHANGED <<first, bound, now, last_frame_at, accepted>>

Feedback(c) ==
    /\ LockFree
    /\ pc[c] \in {"open", "fb_done"}
    /\ IF pc[c] = "fb_done" THEN FeedbackResult(c) ELSE FeedbackDispatch(c)

\* ------------------------------------------------------- binary frames
\* A binary message is a sequence of bytes: the magic, the format byte, three
\* reserved bytes, the timestamp in little-endian order, the payload.  The u64
\* of the source is TsBits wide here, so its bytes are TsBits bytes of one bit.
ByteBase == 2
TsBytes == TsBits
Magic == <<70, 80, 70, 49>>
HeaderLen == 4 + 1 + 3 + TsBytes
MinPayloadLen == 2

\* u64::to_le_bytes and u64::from_le_bytes
to_le_bytes(ts) == [i \in 1..TsBytes |-> (ts \div (ByteBase ^ (i - 1))) % ByteBase]
from_le_bytes(arr) == SumSeq([i \in 1..Len(arr) |-> arr[i] * (ByteBase ^ (i - 1))])

\* the bytes of an image file of `len` bytes, and the image a payload holds
ImageBytes(img, len) == [i \in 1..len |-> img]
ImageOf(payload) == IF payload = <<>> THEN 0 ELSE payload[1]

\* what a client puts on the wire
Encode(format_code, reserved, ts, payload) ==
    Magic \o <<format_code>> \o reserved \o to_le_bytes(ts) \o payload

\* what the envelope checks of the Binary arm find, in the order they are made
Envelopes == {"ok", "too-small", "bad-magic", "payload-too-small", "unsupported-format"}

EnvelopeOf(bytes) ==
    IF Len(bytes) < HeaderLen THEN "too-small"
    ELSE IF SubSeq(bytes, 1, 4) # Magic THEN "bad-magic"
    ELSE IF Len(bytes) - HeaderLen < MinPayloadLen THEN "payload-too-small"
    ELSE IF bytes[5] \notin {1, 2} THEN "unsupported-format"
    ELSE "ok"

\* the locals fmt_code, ts and payload of the Binary arm; `payload` in the input
\* record names the image the payload bytes hold
FrameInput(bytes) ==
    IF EnvelopeOf(bytes) # "ok"
    THEN [type |-> "frame", bytes |-> bytes, envelope |-> EnvelopeOf(bytes)]
    ELSE LET payload == SubSeq(bytes, HeaderLen + 1, Len(bytes))
         IN  [type |-> "frame", bytes |-> bytes, envelope |-> "ok",
              fmt_code |-> bytes[5],
              ts |-> from_le_bytes(SubSeq(bytes, 4 + 1 + 3 + 1, HeaderLen)),
              payload_bytes |-> payload,
              payload |-> ImageOf(payload)]

PadDebug(signals) == [present |-> TRUE, signals |-> signals]

\* the decoding of each message of a set
FrameInputs(messages) == [bytes \in messages |-> FrameInput(bytes)]

InvalidFrameCloses(c, inp) ==
    /\ out' = StepIn(c, inp, <<Sent(ErrorMsg("invalid-frame"), FALSE)>>)
    /\ pc' = [pc EXCEPT ![c] = "closed"]
    /\ UNCHANGED <<sessions, first, lock, bound, now, last_frame_at, accepted>>

\* a failed envelope check: error{invalid-frame}, then `continue`
InvalidFrame(c, inp) ==
    /\ out' = StepIn(c, inp, <<Sent(ErrorMsg("invalid-frame"), FALSE)>>)
    /\ UNCHANGED <<sessions, first, lock, pc, bound, now, last_frame_at, accepted>>

\* The Binary arm, built without the onnx feature: envelope checks, process_frame
\* on the first session under the write guard, then the frameAck once the guard of
\* the pad_dbg block is dropped.  A panic in process_frame ends the task.
BinaryFrameOf(c, inputs) ==
    /\ pc[c] = "open"
    /\ \E bytes \in DOMAIN inputs :
         IF inputs[bytes].envelope # "ok"
         THEN InvalidFrame(c, inputs[bytes])
         ELSE LET inp == inputs[bytes]
                  ts == inp.ts
                  payload == inp.payload
              IN  /\ LockFree
                  /\ IF first = 0
                     THEN /\ out' = StepIn(c, inp, <<Sent(FrameAckMsg(ts, NoPad), FALSE)>>)
                          /\ UNCHANGED <<sessions, first, lock, pc, bound, now, last_frame_at, accepted>>
                     ELSE \E o \in process_frame(sessions[first].pad_state, ts, payload) :
                            IF o.panicked
                            THEN /\ pc' = [pc EXCEPT ![c] = "closed"]
                                 /\ bound' = [bound EXCEPT ![c] = 0]
                                 /\ out' = StepIn(c, inp, <<>>)
                                 /\ UNCHANGED <<sessions, first, lock, now, last_frame_at, accepted>>
                            ELSE /\ \E mark \in {sessions[first].pad_mark}
                                                 \cup (IF load_from_memory(payload) /\ payload = MarkedImage
                                                       THEN {[img |-> payload, ts |-> ts]} ELSE {}) :
                                      sessions' = [sessions EXCEPT ![first].pad_state = o.state,
                                                                   ![first].pad_mark = mark]
                                 /\ out' = StepIn(c, inp, <<Sent(FrameAckMsg(ts, PadDebug(o.signals)), FALSE)>>)
                                 /\ UNCHANGED <<first, lock, pc, bound, now, last_frame_at, accepted>>

\* one message failing each envelope check
NoReserved == <<0, 0, 0>>
Malformed ==
    {SubSeq(Encode(1, NoReserved, 0, <<>>), 1, HeaderLen - 1),
     [Encode(1, NoReserved, 0, ImageBytes(MarkedImage, MinPayloadLen)) EXCEPT ![4] = 50],
     Encode(1, NoReserved, 0, ImageBytes(MarkedImage, MinPayloadLen - 1)),
     Encode(3, NoReserved, 0, ImageBytes(MarkedImage, MinPayloadLen))}

\* every timestamp and image in a jpeg envelope of the least size
PadMessages ==
    Malformed \cup {Encode(1, NoReserved, ts, ImageBytes(img, MinPayloadLen)) :
                      ts \in Timestamps, img \in Payloads}

PadInputs == FrameInputs(PadMessages)

BinaryFrame(c) == BinaryFrameOf(c, PadInputs)

\* --------------------------------------------------------- JSON frames
max_fps == 15
min_frame_interval == 1000 \div max_fps

ThrottleMsg == [type |-> "throttle", reason |-> "fps-limit", max_fps |-> max_fps]

\* frame.format, and frame.data: absent, not base64, or base64 of `len` bytes
\* that are the image `payload`
Formats == {"jpeg", "png", "bmp"}
NoData == [kind |-> "none"]
BadBase64 == [kind |-> "bad-base64"]
Base64(short, payload) == [kind |-> "bytes", short |-> short, payload |-> payload]
FrameData == {NoData, BadBase64} \cup {Base64(s, p) : s \in BOOLEAN, p \in Payloads}

JsonFrameInput(format, data, ts) ==
    [type |-> "jsonFrame", format |-> format, data |-> data, ts |-> ts]

\* `valid` as the Frame arm computes it
FrameValid(format, data) ==
    /\ format \in {"jpeg", "png"}
    /\ data.kind = "bytes"
    /\ ~data.short

\* the throttle branch: the reply, then throttled += 1 on the first session
Throttle(c, inp) ==
    /\ out' = StepIn(c, inp, <<Sent(ThrottleMsg, FALSE)>>)
    /\ sessions' = IF first = 0 THEN sessions
                   ELSE [sessions EXCEPT ![first].metrics.throttled = @ + 1]
    /\ UNCHANGED <<first, lock, pc, bound, now, last_frame_at, accepted>>

\* a frame that is not throttled: last_frame_at moves, process_frame runs on the
\* first session when the data decodes, the frameAck goes out, and
\* frames_received += 1 on the first session when the frame is valid
AcceptFrame(c, inp) ==
    LET valid == FrameValid(inp.format, inp.data)
        counted(s) == [s EXCEPT !.metrics.frames_received = IF valid THEN @ + 1 ELSE @]
        seen == [since |-> IF accepted[c].since = NoInstant THEN now ELSE accepted[c].since,
                 count |-> accepted[c].count + 1]
    IN  /\ last_frame_at' = [last_frame_at EXCEPT ![c] = now]
        /\ accepted' = [accepted EXCEPT ![c] = seen]
        /\ IF first = 0
           THEN /\ out' = StepIn(c, inp, <<Sent(FrameAckMsg(inp.ts, NoPad), FALSE)>>)
                /\ UNCHANGED <<sessions, first, lock, pc, bound, now>>
           ELSE IF inp.data.kind # "bytes"
           THEN /\ out' = StepIn(c, inp, <<Sent(FrameAckMsg(inp.ts, NoPad), FALSE)>>)
                /\ sessions' = [sessions EXCEPT ![first] = counted(sessions[first])]
                /\ UNCHANGED <<first, lock, pc, bound, now>>
           ELSE \E o \in process_frame(sessions[first].pad_state, inp.ts, inp.data.payload) :
                  IF o.panicked
                  THEN /\ pc' = [pc EXCEPT ![c] = "closed"]
                       /\ bound' = [bound EXCEPT ![c] = 0]
                       /\ out' = StepIn(c, inp, <<>>)
                       /\ UNCHANGED <<sessions, first, lock, now>>
                  ELSE /\ sessions' = [sessions EXCEPT
                                         ![first] = counted([sessions[first] EXCEPT
                                                               !.pad_state = o.state])]
                       /\ out' = StepIn(c, inp,
                                        <<Sent(FrameAckMsg(inp.ts, PadDebug(o.signals)), FALSE)>>)
                       /\ UNCHANGED <<first, lock, pc, bound, now>>

\* The Frame arm, built without the onnx feature.  max_accepted and max_throttled
\* cap the two counters of the exploration.
JsonFrameOf(c, formats, datas, tss, max_accepted, max_throttled) ==
    /\ pc[c] = "open"
    /\ LockFree
    /\ \E format \in formats, data \in datas, ts \in tss :
         LET inp == JsonFrameInput(format, data, ts)
         IN  IF /\ last_frame_at[c] # NoInstant
                /\ now - last_frame_at[c] < min_frame_interval
             THEN /\ first # 0 => sessions[first].metrics.throttled < max_throttled
                  /\ Throttle(c, inp)
             ELSE /\ accepted[c].count < max_accepted
                  /\ first # 0 => sessions[first].metrics.frames_received < max_accepted
                  /\ AcceptFrame(c, inp)

\* time passes
Tick(d, horizon) ==
    /\ now + d <= horizon
    /\ now' = now + d
    /\ out' = Step(0, <<>>)
    /\ UNCHANGED <<sessions, first, lock, pc, bound, last_frame_at, accepted>>

Next ==
    \/ create_session
    \/ \E c \in Conns :
         \/ Hello(c)
         \/ InitialPrompt(c)
         \/ Telemetry(c)
         \/ Feedback(c)
         \/ ChallengeStart(c)
         \/ ChallengeFrameBatch(c)
         \/ ChallengeEnd(c)

Spec == Init /\ [][Next]_vars

\* The streaming path alone: handshake, telemetry and close.  What a task does
\* without waiting for its client (the initial prompt after the helloAck, the
\* result after `done`) happens as soon as the lock lets it.
StreamNext ==
    \/ create_session
    \/ \E c \in Conns :
         \/ Hello(c)
         \/ InitialPrompt(c)
         \/ Close(c)
         \/ Telemetry(c)

ServerStep(c) == InitialPrompt(c) \/ (pc[c] = "tel_done" /\ Telemetry(c))

StreamSpec == Init /\ [][StreamNext]_vars /\ \A c \in Conns : WF_vars(ServerStep(c))

\* The buffered path alone: handshake, challengeStart, challengeFrameBatch,
\* challengeEnd and close.
BufferNext ==
    \/ create_session
    \/ \E c \in Conns :
         \/ Hello(c)
         \/ BadHandshake(c)
         \/ InitialPrompt(c)
         \/ HelloAgain(c)
         \/ Close(c)
         \/ ChallengeStart(c)
         \/ ChallengeFrameBatch(c)
         \/ ChallengeEnd(c)

BufferSpec == Init /\ [][BufferNext]_vars

\* The PAD path alone: one session and the binary frames of its client, which
\* reconnects on the same connection.
PadConns == {c \in Conns : \A d \in Conns : c <= d}

PadNext ==
    \/ sessions = <<>> /\ create_session
    \/ \E c \in PadConns :
         \/ Hello(c)
         \/ InitialPrompt(c)
         \/ Close(c)
         \/ BinaryFrame(c)

PadSpec == Init /\ [][PadNext]_vars

\* One session and one connection whose client sends a valid JSON frame, and the
\* same frame again at once, every min_frame_interval milliseconds.
MaxRateFrames == 103
RateHorizon == 6732
SteadyFrame(c) ==
    JsonFrameOf(c, {"jpeg"}, {Base64(FALSE, MarkedImage)}, {0}, MaxRateFrames, 1)

RateTick ==
    /\ \E c \in PadConns : last_frame_at[c] = now
    /\ Tick(min_frame_interval, RateHorizon)

RateNext ==
    \/ sessions = <<>> /\ create_session
    \/ RateTick
    \/ \E c \in PadConns :
         \/ Hello(c)
         \/ InitialPrompt(c)
         \/ SteadyFrame(c)

\* One session and one connection sending the well-formed envelopes of one image
\* with both format codes, two settings of the reserved bytes, every timestamp and
\* two payload sizes, and the malformed messages.
FormatCodes == {1, 2}
Reserved == {NoReserved, <<255, 1, 70>>}
PayloadLens == {MinPayloadLen, MinPayloadLen + 1}
EnvelopeMessages ==
    Malformed \cup {Encode(f, r, ts, ImageBytes(MarkedImage, n)) :
                      f \in FormatCodes, r \in Reserved, ts \in Timestamps, n \in PayloadLens}

EnvelopeInputs == FrameInputs(EnvelopeMessages)

EnvelopeNext ==
    \/ sessions = <<>> /\ create_session
    \/ \E c \in PadConns :
         \/ Hello(c)
         \/ InitialPrompt(c)
         \/ Close(c)
         \/ BinaryFrameOf(c, EnvelopeInputs)

EnvelopeSpec == Init /\ [][EnvelopeNext]_vars

RateSpec == Init /\ [][RateNext]_vars

\* One session whose telemetry receives scores and positions, the k-th call of
\* each function passing the value k.
MaxArrivals == 32
AddMotionScore ==
    /\ first # 0
    /\ sessions[first].arrivals.scores < MaxArrivals
    /\ LET k == sessions[first].arrivals.scores + 1
       IN  sessions' = [sessions EXCEPT ![first].tele = add_motion_score(@, k),
                                        ![first].arrivals.scores = k]
    /\ out' = Step(0, <<>>)
    /\ UNCHANGED <<first, lock, pc, bound, now, last_frame_at, accepted>>

AddFacePosition ==
    /\ first # 0
    /\ sessions[first].arrivals.positions < MaxArrivals
    /\ LET k == sessions[first].arrivals.positions + 1
       IN  sessions' = [sessions EXCEPT ![first].tele = add_face_position(@, <<k, k>>),
                                        ![first].arrivals.positions = k]
    /\ out' = Step(0, <<>>)
    /\ UNCHANGED <<first, lock, pc, bound, now, last_frame_at, accepted>>

HistoryNext ==
    \/ sessions = <<>> /\ create_session
    \/ AddMotionScore
    \/ AddFacePosition

HistorySpec == Init /\ [][HistoryNext]_vars

\* One session and one connection whose client may send one batch more than the
\* totalFrames it declared call for.
OverflowNext ==
    \/ sessions = <<>> /\ create_session
    \/ \E c \in PadConns :
         \/ Hello(c)
         \/ InitialPrompt(c)
         \/ Close(c)
         \/ ChallengeStart(c)
         \/ ChallengeFrameBatchUpTo(c, MaxBatches + 1)
         \/ ChallengeEnd(c)

OverflowSpec == Init /\ [][OverflowNext]_vars

\* One session and one connection whose client declares the gesture detected or
\* not and sends one batch of n frames, the first f of them with a face, all with
\* the same motion score (0 or 1.0, in thousandths).
FullScore == 1000
DecisionBatch(n, f, score) == [i \in 1..n |-> Frame(i <= f, score, FALSE)]
DecisionBatches ==
    {DecisionBatch(n, f, score) :
       n \in {0, MinFrames - 1, MinFrames},
       f \in {0, 6, 7, MinFrames - 1},
       score \in {NoScore, 0, FullScore}}

DecisionNext ==
    \/ sessions = <<>> /\ create_session
    \/ \E c \in PadConns :
         \/ Hello(c)
         \/ InitialPrompt(c)
         \/ Close(c)
         \/ ChallengeStartOf(c, BOOLEAN, EpochStart)
         \/ ChallengeFrameBatchOf(c, DecisionBatches, MaxBatches)
         \/ ChallengeEnd(c)

DecisionSpec == Init /\ [][DecisionNext]_vars

\* One session and one connection whose client sends telemetry one message at a
\* time: without a score, with a score under the hit threshold (only at the start
\* of a history) or with a high score; face positions arrive as the Binary arm of
\* the onnx build pushes them (main.rs 805), a face moving one unit per frame,
\* before the scores of the same history.
LowScore == 10
MaxLow == 2
MaxStreamHits == 25
MaxPositions == 20
AdmitFacePosition ==
    /\ first # 0
    /\ sessions[first].tele.motion_scores = <<>>
    /\ Len(sessions[first].tele.face_positions) < MaxPositions
    /\ LET k == Len(sessions[first].tele.face_positions) + 1
       IN  sessions' = [sessions EXCEPT ![first].tele = add_face_position(@, <<k, k>>)]
    /\ out' = Step(0, <<>>)
    /\ UNCHANGED <<first, lock, pc, bound, now, last_frame_at, accepted>>

AdmitScores ==
    {NoScore, HiScore}
      \cup (IF /\ first # 0
                /\ sessions[first].tele.motion_hits = 0
                /\ Len(sessions[first].tele.motion_scores) < MaxLow
             THEN {LowScore} ELSE {})

AdmitTelemetry(c) ==
    /\ LockFree
    /\ pc[c] \in {"open", "tel_done"}
    /\ IF pc[c] = "tel_done" THEN TelemetryResult(c)
       ELSE TelemetryDispatchOf(c, AdmitScores, 1, MaxStreamHits, TRUE)

AdmitNext ==
    \/ sessions = <<>> /\ create_session
    \/ AdmitFacePosition
    \/ \E c \in PadConns :
         \/ Hello(c)
         \/ InitialPrompt(c)
         \/ Close(c)
         \/ AdmitTelemetry(c)

AdmitSpec == Init /\ [][AdmitNext]_vars

\* ------------------------------------------------ non-maximum suppression
\* infer/mod.rs, with integer coordinates and scores; an IoU is kept as the pair
\* (intersection, union) it is the quotient of, and iou_threshold 0.4 as 2/5.
FaceBox(x1, y1, x2, y2, score) == [x1 |-> x1, y1 |-> y1, x2 |-> x2, y2 |-> y2, score |-> score]

Max2(a, b) == IF a > b THEN a ELSE b
Min2(a, b) == IF a < b THEN a ELSE b

area(b) == Max2(b.x2 - b.x1, 0) * Max2(b.y2 - b.y1, 0)

Ratio(num, den) == [num |-> num, den |-> den]
iou_threshold == Ratio(2, 5)
RatioLess(p, q) == p.num * q.den < q.num * p.den

intersection_over_union(a, b) ==
    LET w == Max2(Min2(a.x2, b.x2) - Max2(a.x1, b.x1), 0)
        h == Max2(Min2(a.y2, b.y2) - Max2(a.y1, b.y1), 0)
        inter == w * h
        union == area(a) + area(b) - inter
    IN  IF inter <= 0 THEN Ratio(0, 1)
        ELSE IF union <= 0 THEN Ratio(0, 1)
        ELSE Ratio(inter, union)

\* boxes.sort_by(|a, b| b.score.total_cmp(&a.score)): stable, descending
RECURSIVE InsertByScore(_, _)
InsertByScore(sorted, b) ==
    IF sorted = <<>> THEN <<b>>
    ELSE IF Head(sorted).score >= b.score THEN <<Head(sorted)>> \o InsertByScore(Tail(sorted), b)
    ELSE <<b>> \o sorted

RECURSIVE SortByScore(_)
SortByScore(boxes) ==
    IF boxes = <<>> THEN <<>>
    ELSE InsertByScore(SortByScore(SubSeq(boxes, 1, Len(boxes) - 1)), boxes[Len(boxes)])

\* the loop `while let Some(candidate) = boxes.pop()`: candidates leave the vector
\* from its end
RECURSIVE SelectLoop(_, _, _)
SelectLoop(boxes, selected, threshold) ==
    IF boxes = <<>> THEN selected
    ELSE LET candidate == boxes[Len(boxes)]
             keep == \A i \in 1..Len(selected) :
                       RatioLess(intersection_over_union(candidate, selected[i]), threshold)
         IN  SelectLoop(SubSeq(boxes, 1, Len(boxes) - 1),
                        IF keep THEN Append(selected, candidate) ELSE selected, threshold)

non_max_suppression(boxes, threshold) ==
    IF boxes = <<>> THEN boxes
    ELSE SelectLoop(SortByScore(boxes), <<>>, threshold)

\* the candidate lists: up to MaxBoxes boxes of height 1 over three spans, with
\* scores 1..MaxScore
MaxBoxes == 3
MaxScore == 2
Spans == {<<0, 2>>, <<1, 3>>, <<0, 3>>}
Candidates == {FaceBox(sp[1], 0, sp[2], 1, score) : sp \in Spans, score \in 1..MaxScore}
CandidateLists == UNION {[1..n -> Candidates] : n \in 0..MaxBoxes}

NmsInput(boxes) == [type |-> "nms", boxes |-> boxes]

\* one call of non_max_suppression; `out` holds the argument and the value returned
Detect ==
    /\ \E boxes \in CandidateLists :
         out' = StepIn(0, NmsInput(boxes), non_max_suppression(boxes, iou_threshold))
    /\ UNCHANGED <<sessions, first, lock, pc, bound, now, last_frame_at, accepted>>

NmsNext == Detect

NmsSpec == Init /\ [][NmsNext]_vars

\* Up to MaxSessions sessions and one connection sending JSON frames of every
\* format and kind of data, with the clock moving by whole frame intervals.
MaxFrames == 2
MaxThrottled == 2
MaxTicks == 2
FrameTs == {0, U64 - 1}
SomeFormats == {"jpeg", "bmp"}
SomeData == {NoData, BadBase64, Base64(TRUE, MarkedImage), Base64(FALSE, MarkedImage),
             Base64(FALSE, 0)}
JsonFrame(c) == JsonFrameOf(c, SomeFormats, SomeData, FrameTs, MaxFrames, MaxThrottled)

FrameNext ==
    \/ create_session
    \/ Tick(min_frame_interval, MaxTicks * min_frame_interval)
    \/ \E c \in PadConns :
         \/ Hello(c)
         \/ InitialPrompt(c)
         \/ Close(c)
         \/ JsonFrame(c)

FrameSpec == Init /\ [][FrameNext]_vars

\* One session and one connection whose client sends the same image as JSON
\* frames and as binary frames while the clock advances.
MixedInputs ==
    FrameInputs({Encode(1, NoReserved, ts, ImageBytes(MarkedImage, MinPayloadLen)) : ts \in FrameTs})

MixedNext ==
    \/ sessions = <<>> /\ create_session
    \/ Tick(min_frame_interval, MaxTicks * min_frame_interval)
    \/ \E c \in PadConns :
         \/ Hello(c)
         \/ InitialPrompt(c)
         \/ Close(c)
         \/ JsonFrameOf(c, {"jpeg"}, {Base64(FALSE, MarkedImage)}, FrameTs, MaxFrames, MaxThrottled)
         \/ BinaryFrameOf(c, MixedInputs)

MixedSpec == Init /\ [][MixedNext]_vars

\* One session and one connection whose client puts in startTime the epoch or
\* the largest u64, while the wall clock advances.
StartTimes == {0, U64 - 1}
TimingNext ==
    \/ sessions = <<>> /\ create_session
    \/ Tick(1, MaxTicks)
    \/ \E c \in PadConns :
         \/ Hello(c)
         \/ InitialPrompt(c)
         \/ Close(c)
         \/ ChallengeStartOf(c, GestureInputs, StartTimes)
         \/ ChallengeFrameBatch(c)
         \/ ChallengeEnd(c)

TimingSpec == Init /\ [][TimingNext]_vars

\* ------------------------------------------------------------- claims
Resolved(s) == s.fsm.completed + s.fsm.failed

OutMsgs(type) == {k \in 1..Len(out.msgs) : out.msgs[k].msg.type = type}

PassedResults == {k \in OutMsgs("result") : out.msgs[k].msg.passed}

\* C1: in every reachable state of every session, completed + failed <= 3.
C1_ResolvedAtMostThree ==
    \A i \in DOMAIN sessions : Resolved(sessions[i]) <= RequiredChallenges

\* C2: a step of a connection whose hello named session S leaves every other
\* session of the mapping as it was.
C2_DispatchStaysInBoundSession ==
    [][\A c \in Conns :
         (out'.conn = c /\ bound[c] # 0)
           => \A i \in DOMAIN sessions : i # bound[c] => sessions'[i] = sessions[i]]_vars

\* C3: once a session is Passed or Failed, no step that keeps its attempt id
\* changes fsm.state, fsm.completed or fsm.failed.
C3_DecisionMonotone ==
    [][\A i \in DOMAIN sessions :
         (sessions[i].fsm.state.state \in {"Passed", "Failed"}
            /\ sessions'[i].current_attempt_id = sessions[i].current_attempt_id)
           => sessions'[i].fsm = sessions[i].fsm]_vars

\* C4: no session is Passed, and no result{passed:true} is sent, while the
\* attempt has a failed challenge.
C4_PassedOnlyWithoutFailures ==
    /\ \A i \in DOMAIN sessions :
         sessions[i].fsm.state.state = "Passed" => sessions[i].fsm.failed = 0
    /\ PassedResults # {} => sessions[first].fsm.failed = 0

\* C5: a session is Passed, and result{passed:true} is sent, only with
\* completed >= 3.
C5_PassedOnlyAfterThree ==
    /\ \A i \in DOMAIN sessions :
         sessions[i].fsm.state.state = "Passed" => sessions[i].fsm.completed >= RequiredChallenges
    /\ PassedResults # {} => sessions[first].fsm.completed >= RequiredChallenges

\* C6: an attempt is over once three challenges are resolved: no prompt is
\* outstanding (the FSM is not Prompting) while completed + failed >= 3.
C6_NoPromptAfterThree ==
    \A i \in DOMAIN sessions :
      sessions[i].fsm.state.state = "Prompting" => Resolved(sessions[i]) < RequiredChallenges

\* C7: at most one result message is sent for an attempt id.
C7_OneResultPerAttempt ==
    \A i \in DOMAIN sessions : sessions[i].results <= 1

\* C8: no connection task waits for the write lock of the session mapping while
\* its own guard is alive, so the lock is free again after every dispatch.
C8_NoWaitOnOwnGuard ==
    \A c \in Conns : pc[c] \in {"tel_done", "fb_done"} => lock # c

\* C9: when the streaming path admits the third challenge, the session is Passed
\* and the connection eventually sends result{passed:true} for the attempt.
C9_ThirdAdmissionSendsResult ==
    \A c \in Conns :
      [](pc[c] = "tel_done"
           => /\ sessions[first].fsm.state.state = "Passed"
              /\ <>(out.conn = c /\ PassedResults # {}))

\* C10: no message is sent while the write guard of the dispatch is alive.
C10_NoSendUnderLock ==
    \A k \in 1..Len(out.msgs) : ~out.msgs[k].held

\* C11: a challengeFrameBatch whose attemptId differs from a session's current
\* attempt id leaves that session's FSM, attempt id and challenge buffer unchanged.
C11_StaleBatchChangesNothing ==
    [][\A i \in DOMAIN sessions :
         (/\ out'.inp.type = "challengeFrameBatch"
          /\ out'.inp.attempt_id # sessions[i].current_attempt_id)
         => /\ sessions'[i].fsm = sessions[i].fsm
            /\ sessions'[i].current_attempt_id = sessions[i].current_attempt_id
            /\ sessions'[i].challenge_buffer = sessions[i].challenge_buffer]_vars

\* a batch for another attempt was dispatched while the buffer of its challenge id
\* was open
C11_StaleBatchDispatched ==
    /\ first # 0
    /\ out.inp.type = "challengeFrameBatch"
    /\ out.inp.attempt_id # sessions[first].current_attempt_id
    /\ sessions[first].challenge_buffer.open
    /\ sessions[first].challenge_buffer.challenge_id = out.inp.challenge_id

\* C12: a challengeEnd whose attemptId or challengeId does not match the open
\* buffer and the current attempt sends no challengeResult and leaves the FSM and
\* the open buffer as they were.
C12_MismatchedEndKeepsBuffer ==
    [][\A i \in DOMAIN sessions :
         (/\ out'.inp.type = "challengeEnd"
          /\ sessions[i].challenge_buffer.open
          /\ \/ out'.inp.attempt_id # sessions[i].current_attempt_id
             \/ out'.inp.attempt_id # sessions[i].challenge_buffer.attempt_id
             \/ out'.inp.challenge_id # sessions[i].challenge_buffer.challenge_id)
         => /\ \A k \in 1..Len(out'.msgs) : out'.msgs[k].msg.type # "challengeResult"
            /\ sessions'[i].fsm = sessions[i].fsm
            /\ sessions'[i].challenge_buffer = sessions[i].challenge_buffer]_vars

\* C13: an open challenge buffer is bound to the session's current attempt id.
C13_BufferBoundToCurrentAttempt ==
    \A i \in DOMAIN sessions :
       sessions[i].challenge_buffer.open
         => sessions[i].challenge_buffer.attempt_id = sessions[i].current_attempt_id

\* frames were accumulated in a buffer opened after the attempt id had changed
C13_FramesInLaterAttempt ==
    \E i \in DOMAIN sessions :
       /\ sessions[i].challenge_buffer.open
       /\ sessions[i].challenge_buffer.frames # <<>>
       /\ sessions[i].current_attempt_id # NewSession(i).current_attempt_id

\* C14: a challengeStart resets the session of its connection exactly when its
\* attemptId differs from the session's current one (new id adopted, FSM Idle with
\* completed = failed = 0, telemetry cleared; otherwise FSM and telemetry kept),
\* and in both cases leaves an empty buffer bound to the incoming ids.
C14_StartResetsIffNewAttempt ==
    [][\A c \in Conns :
         (out'.conn = c /\ out'.inp.type = "challengeStart" /\ bound[c] # 0)
         => LET s == sessions[bound[c]]
                r == sessions'[bound[c]]
                attempt_id == out'.inp.attempt_id
            IN  /\ attempt_id # s.current_attempt_id
                     => /\ r.current_attempt_id = attempt_id
                        /\ r.fsm = NewFsm
                        /\ r.tele = NewTele
                /\ attempt_id = s.current_attempt_id
                     => /\ r.current_attempt_id = s.current_attempt_id
                        /\ r.fsm = s.fsm
                        /\ r.tele = s.tele
                /\ r.challenge_buffer.open
                /\ r.challenge_buffer.frames = <<>>
                /\ r.challenge_buffer.attempt_id = attempt_id
                /\ r.challenge_buffer.challenge_id = out'.inp.challenge_id]_vars

\* C20: a connection whose first message is binary, or text that is no hello, gets
\* exactly one error (bad-handshake) and is closed; no prompt, no session changed.
C20_BadHandshakeOneErrorThenClosed ==
    [][\A c \in Conns :
         (out'.conn = c /\ pc[c] = "closed" /\ out'.inp.type \in {"binary", "text"})
         => /\ out'.msgs = <<Sent(ErrorMsg("bad-handshake"), FALSE)>>
            /\ pc'[c] = "closed"
            /\ sessions' = sessions]_vars

\* a binary first message was answered while a session was being prompted
C20_BinaryFirstMessage ==
    /\ out.inp.type = "binary"
    /\ pc[out.conn] = "closed"
    /\ \E i \in DOMAIN sessions : sessions[i].fsm.state.state = "Prompting"

\* the pad_state process_frame works on, and the frameAck of the last step
Pad == sessions[first].pad_state

FrameAcks == {k \in OutMsgs("frameAck") : out.msgs[k].msg.pad.present}

\* C15: the recent-hash ring never holds more than max_recent_hashes entries.
C15_RingAtMostMax ==
    \A i \in DOMAIN sessions : Len(sessions[i].pad_state.recent_hashes) <= max_recent_hashes

\* the ring is full after a frame, and the hash of an earlier frame has left it
C15_RingFullAfterEviction ==
    /\ first # 0
    /\ FrameAcks # {}
    /\ Len(Pad.recent_hashes) = max_recent_hashes
    /\ sessions[first].pad_mark # NoMark
    /\ \A k \in 1..Len(Pad.recent_hashes) :
          Pad.recent_hashes[k].hash # phash_u64(sessions[first].pad_mark.img)

\* C16: every entry of the ring is at most replay_window_ms older than the latest
\* processed frame.
C16_RingEntriesWithinWindow ==
    \A i \in DOMAIN sessions :
       LET p == sessions[i].pad_state
       IN  \A k \in 1..Len(p.recent_hashes) :
              p.last_ts - p.recent_hashes[k].ts <= replay_window_ms

\* C17: a decodable image processed again at most replay_window_ms after it was
\* processed in the same session is reported as a duplicate (stated for the
\* timestamps whose sum with allow_clock_skew_ms fits the timestamp width).
C17_RepeatedImageIsDuplicate ==
    [][(/\ first # 0
        /\ out'.inp.type = "frame" /\ out'.inp.envelope = "ok"
        /\ out'.inp.ts + allow_clock_skew_ms < U64
        /\ load_from_memory(out'.inp.payload)
        /\ sessions[first].pad_mark.img = out'.inp.payload
        /\ sessions[first].pad_mark.ts <= out'.inp.ts
        /\ out'.inp.ts - sessions[first].pad_mark.ts <= replay_window_ms)
       => /\ Len(out'.msgs) = 1
          /\ out'.msgs[1].msg.type = "frameAck"
          /\ out'.msgs[1].msg.pad.signals.duplicate_hash]_vars

\* C18: a payload that does not decode yields (false, false, 0.0), leaves the ring
\* and the grayscale reference alone and sets last_ts to the frame's ts (stated for
\* the timestamps whose sum with allow_clock_skew_ms fits the timestamp width).
C18_UndecodableFrameIsNeutral ==
    [][(/\ first # 0
        /\ out'.inp.type = "frame" /\ out'.inp.envelope = "ok"
        /\ out'.inp.ts + allow_clock_skew_ms < U64
        /\ ~load_from_memory(out'.inp.payload))
       => /\ Len(out'.msgs) = 1
          /\ out'.msgs[1].msg.type = "frameAck"
          /\ out'.msgs[1].msg.pad = PadDebug(PadSignals(FALSE, FALSE, 0))
          /\ sessions'[first].pad_state.recent_hashes = Pad.recent_hashes
          /\ sessions'[first].pad_state.last_small_gray = Pad.last_small_gray
          /\ sessions'[first].pad_state.last_ts = out'.inp.ts]_vars

\* C19: suspectedReplay is set exactly when ts + allowClockSkewMs, as a
\* mathematical sum, is below the previous last_ts; last_ts always becomes ts.
C19_ReplayIffSumBelowPrevious ==
    [][(/\ first # 0
        /\ out'.inp.type = "frame" /\ out'.inp.envelope = "ok")
       => /\ Len(out'.msgs) = 1
          /\ out'.msgs[1].msg.type = "frameAck"
          /\ out'.msgs[1].msg.pad.signals.suspected_replay
               = (Pad.last_ts # NoTs /\ out'.inp.ts + allow_clock_skew_ms < Pad.last_ts)
          /\ sessions'[first].pad_state.last_ts = out'.inp.ts]_vars

\* C21: a hello naming an unknown session or carrying a token other than the stored
\* one gets exactly one error (unauthorized) and the connection is closed; no
\* helloAck, no prompt, no session changed.
C21_BadTokenOneErrorThenClosed ==
    [][\A c \in Conns :
         (/\ out'.conn = c /\ pc[c] = "closed" /\ out'.inp.type = "hello"
          /\ ~(/\ out'.inp.session_id \in DOMAIN sessions
               /\ sessions[out'.inp.session_id].token = out'.inp.token))
         => /\ out'.msgs = <<Sent(ErrorMsg("unauthorized"), FALSE)>>
            /\ pc'[c] = "closed"
            /\ sessions' = sessions]_vars

\* a hello with the id of a stored session and a wrong token was answered while a
\* session was being prompted
C21_WrongTokenHello ==
    /\ out.inp.type = "hello"
    /\ out.inp.session_id \in DOMAIN sessions
    /\ sessions[out.inp.session_id].token # out.inp.token
    /\ pc[out.conn] = "closed"
    /\ \E i \in DOMAIN sessions : sessions[i].fsm.state.state = "Prompting"

\* C22: after a hello matching a stored session S the server sends helloAck with
\* the four kinds and then prompt{c1, open-mouth, 5000, S's current attempt id},
\* and S's FSM is Prompting{c1, open-mouth}.
C22_AckThenPromptForBoundSession ==
    [][\A c \in Conns :
         /\ (/\ out'.conn = c /\ pc[c] = "closed" /\ out'.inp.type = "hello"
             /\ out'.inp.session_id \in DOMAIN sessions
             /\ sessions[out'.inp.session_id].token = out'.inp.token)
            => /\ out'.msgs = <<Sent(HelloAckMsg, FALSE)>>
               /\ HelloAckMsg.challenges = <<"open-mouth", "turn-left", "turn-right", "head-up">>
               /\ pc'[c] = "acked"
         /\ (out'.conn = c /\ pc[c] = "acked" /\ pc'[c] = "open")
            => /\ Len(out'.msgs) = 1
               /\ out'.msgs[1].msg
                    = PromptMsg(1, "open-mouth", sessions[bound[c]].current_attempt_id)
               /\ out'.msgs[1].msg.timeout_ms = 5000
               /\ sessions'[bound[c]].fsm.state = Prompting(1, "open-mouth")]_vars

Ceil(a, b) == (a + b - 1) \div b

\* C23: on one connection, the frames accepted (not throttled) within a window of
\* window_ms milliseconds number at most ceil(window_ms * maxFps / 1000) + 1.  The
\* window taken is the shortest one that holds every frame accepted so far.
C23_AcceptedWithinRateBound ==
    \A c \in Conns :
      accepted[c].count > 0
        => LET window_ms == last_frame_at[c] - accepted[c].since + 1
           IN  accepted[c].count <= Ceil(window_ms * max_fps, 1000) + 1

\* C24: a JSON frame arriving less than the minimum interval after the last
\* accepted one gets exactly one throttle{fps-limit, maxFps: 15}; the session's
\* metrics.throttled grows by one; there is no frameAck; no PAD state, no
\* frames_received and not the last-accepted time changes.
C24_ThrottledFrameOnlyCounts ==
    [][\A c \in Conns :
         (/\ out'.conn = c /\ out'.inp.type = "jsonFrame"
          /\ last_frame_at[c] # NoInstant
          /\ now - last_frame_at[c] < 1000 \div 15)
         => /\ out'.msgs = <<Sent([type |-> "throttle", reason |-> "fps-limit", max_fps |-> 15],
                                  FALSE)>>
            /\ sessions'[bound[c]].metrics.throttled
                 = sessions[bound[c]].metrics.throttled + 1
            /\ \A i \in DOMAIN sessions :
                 /\ sessions'[i].pad_state = sessions[i].pad_state
                 /\ sessions'[i].metrics.frames_received = sessions[i].metrics.frames_received
            /\ last_frame_at' = last_frame_at]_vars

\* C25: metrics.frames_received counts the accepted frames, JSON or binary, and
\* metrics.throttled the throttle replies.  Here: a well-formed binary envelope
\* with a decodable image that is acknowledged is an accepted frame, so it raises
\* frames_received of the connection's session by one.
C25_AcceptedBinaryFrameCounted ==
    [][\A c \in Conns :
         (/\ out'.conn = c /\ out'.inp.type = "frame" /\ out'.inp.envelope = "ok"
          /\ load_from_memory(out'.inp.payload)
          /\ bound[c] \in DOMAIN sessions
          /\ Len(out'.msgs) = 1 /\ out'.msgs[1].msg.type = "frameAck")
         => sessions'[bound[c]].metrics.frames_received
              = sessions[bound[c]].metrics.frames_received + 1]_vars

\* C26: a JSON frame that is not throttled and has an unknown format, a decoded
\* payload under 100 bytes or undecodable base64 is answered with
\* error{invalid-frame}, and the connection stays open.  Timestamps that overflow
\* the replay comparison are left out.
C26_InvalidJsonFrameGetsError ==
    [][\A c \in Conns :
         (/\ out'.conn = c /\ out'.inp.type = "jsonFrame"
          /\ ~(last_frame_at[c] # NoInstant /\ now - last_frame_at[c] < min_frame_interval)
          /\ out'.inp.ts + allow_clock_skew_ms < U64
          /\ \/ out'.inp.format \notin {"jpeg", "png"}
             \/ out'.inp.data = BadBase64
             \/ out'.inp.data.kind = "bytes" /\ out'.inp.data.short)
         => /\ out'.msgs = <<Sent(ErrorMsg("invalid-frame"), FALSE)>>
            /\ pc'[c] = "open"]_vars

\* C27: a binary message shorter than the header, with a magic other than FPF1,
\* with a payload under the least size or with a format code other than 1 or 2
\* is answered with exactly one error{invalid-frame} and no frameAck; no session's
\* PAD state, metrics or FSM changes, and the connection stays open.
C27_BadEnvelopeOneErrorNoEffect ==
    [][\A c \in Conns :
         (/\ out'.conn = c /\ out'.inp.type = "frame"
          /\ LET bytes == out'.inp.bytes
             IN  \/ Len(bytes) < HeaderLen
                 \/ SubSeq(bytes, 1, 4) # <<70, 80, 70, 49>>
                 \/ Len(bytes) - HeaderLen < MinPayloadLen
                 \/ bytes[5] \notin {1, 2})
         => /\ out'.msgs = <<Sent(ErrorMsg("invalid-frame"), FALSE)>>
            /\ sessions' = sessions
            /\ pc[c] = "open" /\ pc'[c] = "open"]_vars

\* a malformed message was answered on a connection whose session had frames in
\* its hash ring
C27_BadEnvelopeAfterFrames ==
    /\ out.inp.type = "frame"
    /\ out.inp.envelope = "unsupported-format"
    /\ out.conn # 0 /\ pc[out.conn] = "open"
    /\ first # 0 /\ Len(sessions[first].pad_state.recent_hashes) = max_recent_hashes

\* C28: for a well-formed envelope built from a format code 1 or 2, any reserved
\* bytes, any timestamp and a payload of the least size or more, the Binary arm
\* decodes exactly that format code, timestamp and payload, and answers with a
\* frameAck carrying that timestamp.
C28_EnvelopeRoundTripAcked ==
    [][\A c \in Conns :
         \A f \in FormatCodes, r \in Reserved, ts \in Timestamps, n \in PayloadLens :
           (/\ out'.conn = c /\ out'.inp.type = "frame"
            /\ out'.inp.bytes = Encode(f, r, ts, ImageBytes(MarkedImage, n)))
           => /\ out'.inp.fmt_code = f
              /\ out'.inp.ts = ts
              /\ out'.inp.payload_bytes = ImageBytes(MarkedImage, n)
              /\ Len(out'.msgs) = 1
              /\ out'.msgs[1].msg.type = "frameAck"
              /\ out'.msgs[1].msg.ts = ts]_vars

\* C29: an open challenge buffer never holds more frames than the totalFrames of
\* the challengeStart that opened it.
C29_BufferWithinDeclaredTotal ==
    \A i \in DOMAIN sessions :
      sessions[i].challenge_buffer.open
        => Len(sessions[i].challenge_buffer.frames)
             <= sessions[i].challenge_buffer.total_expected_frames

\* C30: after any sequence of add_motion_score and add_face_position calls each
\* history holds at most 30 entries, and they are the most recent ones in arrival
\* order: after n calls, the calls n - len + 1 .. n with len = min(n, 30).
C30_HistoriesHoldMostRecent ==
    \A i \in DOMAIN sessions :
      LET scores == sessions[i].tele.motion_scores
          positions == sessions[i].tele.face_positions
          n == sessions[i].arrivals.scores
          m == sessions[i].arrivals.positions
      IN  /\ Len(scores) = (IF n < 30 THEN n ELSE 30)
          /\ \A k \in 1..Len(scores) : scores[k] = n - Len(scores) + k
          /\ Len(positions) = (IF m < 30 THEN m ELSE 30)
          /\ \A k \in 1..Len(positions) :
               positions[k] = <<m - Len(positions) + k, m - Len(positions) + k>>

\* both histories have evicted entries
C30_BothHistoriesEvicted ==
    \E i \in DOMAIN sessions :
      /\ sessions[i].arrivals.scores > 30
      /\ sessions[i].arrivals.positions > 30
      /\ Len(sessions[i].tele.motion_scores) = 30
      /\ Len(sessions[i].tele.face_positions) = 30

\* C31: the decision on a closed buffer passes iff faceDetectionRate >= 0.7,
\* qualityScore >= 0.6, totalFrames >= 10 and gestureDetected; on failure the reason
\* is the first unmet criterion in that order; an empty buffer fails.
C31_DecisionCriteriaInOrder ==
    [][\A c \in Conns :
         (/\ out'.conn = c /\ out'.inp.type = "challengeEnd" /\ first # 0
          /\ Len(out'.msgs) > 0 /\ out'.msgs[1].msg.type = "challengeResult")
         => LET buffer == sessions[first].challenge_buffer
                n == Len(buffer.frames)
                f == Cardinality({i \in 1..n : buffer.frames[i].face_present})
                sum == SumSeq([i \in 1..n |-> IF buffer.frames[i].motion_score = NoScore
                                              THEN 0 ELSE buffer.frames[i].motion_score])
                face == n > 0 /\ 10 * f >= 7 * n
                quality == n > 0 /\ 7000 * f + 3 * sum >= 6000 * n
                frames == n >= 10
                gesture == buffer.gesture_detected
                res == out'.msgs[1].msg
            IN  /\ res.passed <=> (face /\ quality /\ frames /\ gesture)
                /\ n = 0 => ~res.passed
                /\ ~face => res.reason = "face-rate"
                /\ face /\ ~quality => res.reason = "quality"
                /\ face /\ quality /\ ~frames => res.reason = "frames"
                /\ face /\ quality /\ frames /\ ~gesture => res.reason = "gesture"
                /\ res.passed => res.reason = "none"]_vars

\* a buffer failing both the face rate and the quality score was decided
C31_FaceRateBeforeQuality ==
    /\ out.inp.type = "challengeEnd"
    /\ Len(out.msgs) > 0 /\ out.msgs[1].msg.type = "challengeResult"
    /\ out.msgs[1].msg.reason = "face-rate"
    /\ out.msgs[1].msg.analysis.total_frames = 10
    /\ out.msgs[1].msg.analysis.frames_with_face = 6
    /\ out.msgs[1].msg.analysis.motion_sum = 0

\* C32: non_max_suppression takes the candidates in descending score order: a box
\* whose score is above every other input's is in the output, and a box is left
\* out only if a kept box of greater or equal score overlaps it with an IoU of at
\* least iou_threshold.
C32_HighestKeptDroppedOnlyByBetter ==
    out.inp.type = "nms"
      => LET boxes == out.inp.boxes
             selected == out.msgs
             kept(b) == \E k \in 1..Len(selected) : selected[k] = b
         IN  \A i \in 1..Len(boxes) :
               /\ (\A j \in 1..Len(boxes) : j # i => boxes[j].score < boxes[i].score)
                    => kept(boxes[i])
               /\ ~kept(boxes[i])
                    => \E k \in 1..Len(selected) :
                         /\ selected[k].score >= boxes[i].score
                         /\ ~RatioLess(intersection_over_union(boxes[i], selected[k]),
                                       Ratio(2, 5))

\* C33: a challengeEnd increments completed or failed, or issues a prompt or a
\* result, only when the FSM is Prompting and the closed buffer's challenge id is
\* the id of the outstanding prompt.
C33_EndAdvancesOnlyOutstandingPrompt ==
    [][\A i \in DOMAIN sessions :
         (/\ out'.inp.type = "challengeEnd"
          /\ sessions'[i].fsm # sessions[i].fsm)
         => /\ sessions[i].fsm.state.state = "Prompting"
            /\ sessions[i].challenge_buffer.open
            /\ sessions[i].challenge_buffer.challenge_id = sessions[i].fsm.state.challenge_id]_vars

\* C34: the state of an FSM that is Prompting, Passed or Failed is replaced only
\* in a step that increments completed or failed or that resets the attempt; a
\* further handshake does not overwrite it.
C34_PromptReplacedOnlyWhenResolved ==
    [][\A i \in DOMAIN sessions :
         (/\ sessions[i].fsm.state.state # "Idle"
          /\ sessions'[i].fsm.state # sessions[i].fsm.state)
         => \/ sessions'[i].fsm.completed = sessions[i].fsm.completed + 1
            \/ sessions'[i].fsm.failed = sessions[i].fsm.failed + 1
            \/ sessions'[i].current_attempt_id # sessions[i].current_attempt_id]_vars

\* C35: each streaming admission increments completed by exactly one and clears
\* the telemetry state; while completed is below three the FSM stays Prompting
\* with one of the four kinds other than the admitted one and the id
\* c{completed+1}, and exactly one prompt is sent.
C35_AdmissionAdvancesOnce ==
    [][\A i \in DOMAIN sessions :
         (/\ out'.inp.type = "telemetry"
          /\ sessions'[i].fsm.completed # sessions[i].fsm.completed)
         => /\ sessions'[i].fsm.completed = sessions[i].fsm.completed + 1
            /\ sessions'[i].tele = NewTele
            /\ sessions'[i].fsm.completed < RequiredChallenges
                 => /\ sessions'[i].fsm.state.state = "Prompting"
                    /\ \E k \in 1..Len(AllKinds) :
                         /\ AllKinds[k] # sessions[i].fsm.state.kind
                         /\ sessions'[i].fsm.state.kind = AllKinds[k]
                    /\ sessions'[i].fsm.state.challenge_id = sessions'[i].fsm.completed + 1
                    /\ Len(out'.msgs) = 1
                    /\ out'.msgs[1].msg = PromptMsg(sessions'[i].fsm.state.challenge_id,
                                                    sessions'[i].fsm.state.kind,
                                                    sessions[i].current_attempt_id)]_vars

C35_FirstAdmission ==
    /\ out.inp.type = "telemetry"
    /\ Len(out.msgs) = 1
    /\ out.msgs[1].msg.type = "prompt"
    /\ out.msgs[1].msg.id = 2
    /\ first # 0
    /\ sessions[first].fsm.completed = 1
    /\ sessions[first].tele = NewTele

\* the scores of a history that reach the hit threshold
QualifyingScores(scores) ==
    Len(SelectSeq(scores, LAMBDA x : x >= MotionHitThreshold))

\* C36: streaming admits open-mouth, a turn or head-up only after at least 15,
\* 20 or 25 telemetry messages with motionScore >= 0.02 since the telemetry
\* state was last reset, and a message without motionScore never increases
\* motion_hits.
C36_AdmissionNeedsQualifyingMessages ==
    [][\A i \in DOMAIN sessions :
         out'.inp.type = "telemetry"
         => /\ out'.inp.motion_score = NoScore
                 => sessions'[i].tele.motion_hits <= sessions[i].tele.motion_hits
            /\ sessions'[i].fsm.completed # sessions[i].fsm.completed
                 => LET kind == sessions[i].fsm.state.kind
                        qualifying ==
                          QualifyingScores(sessions[i].tele.motion_scores)
                            + (IF out'.inp.motion_score >= MotionHitThreshold THEN 1 ELSE 0)
                    IN  /\ kind = "open-mouth" => qualifying >= 15
                        /\ kind \in {"turn-left", "turn-right"} => qualifying >= 20
                        /\ kind = "head-up" => qualifying >= 25]_vars

C36_SecondAdmissionOnScoredMessage ==
    /\ out.inp.type = "telemetry"
    /\ out.inp.motion_score = HiScore
    /\ Len(out.msgs) = 1
    /\ out.msgs[1].msg.type = "prompt"
    /\ out.msgs[1].msg.id = 3
    /\ first # 0
    /\ sessions[first].fsm.completed = 2
    /\ sessions[first].tele = NewTele

\* C37: challenge-end is idempotent per challenge-start: a matching challenge-end
\* leaves the buffer closed, and a challenge-end or a frame batch that finds the
\* buffer closed, on whichever connection, sends nothing and changes no
\* session's completed, failed or FSM state.
C37_EndIdempotentPerStart ==
    [][/\ (out'.inp.type = "challengeEnd" /\ out'.msgs # <<>>)
            => ~sessions'[first].challenge_buffer.open
       /\ (/\ out'.inp.type \in {"challengeEnd", "challengeFrameBatch"}
           /\ first # 0
           /\ ~sessions[first].challenge_buffer.open)
            => /\ out'.msgs = <<>>
               /\ \A i \in DOMAIN sessions : sessions'[i].fsm = sessions[i].fsm]_vars

C37_RepeatedEndAfterMatchingEnd ==
    /\ out.inp.type = "challengeEnd"
    /\ out.msgs = <<>>
    /\ first # 0
    /\ out.inp.attempt_id = sessions[first].current_attempt_id
    /\ sessions[first].fsm.completed + sessions[first].fsm.failed >= 1
    /\ ~sessions[first].challenge_buffer.open

\* C38: the rate limit applies to binary frames too: a binary frame that arrives
\* less than 1000/maxFps ms after the connection's last accepted frame is
\* answered with a throttle message, as a JSON frame is.
C38_BinaryFrameThrottled ==
    [][\A c \in Conns :
         (/\ out'.conn = c
          /\ out'.inp.type = "frame"
          /\ last_frame_at[c] # NoInstant
          /\ now - last_frame_at[c] < min_frame_interval)
         => /\ Len(out'.msgs) = 1
            /\ out'.msgs[1].msg = ThrottleMsg]_vars

\* C39: for every u64 startTime, values greater than the server's time
\* included, a matching challenge-end yields a challengeResult and the FSM
\* advance, on a connection that stays open, with processingTimeMs =
\* now - startTime.
C39_EndSurvivesAnyStartTime ==
    [][\A c \in Conns :
         (/\ out'.conn = c
          /\ out'.inp.type = "challengeEnd"
          /\ first # 0
          /\ sessions[first].challenge_buffer.open
          /\ sessions[first].current_attempt_id = out'.inp.attempt_id
          /\ sessions[first].challenge_buffer.attempt_id = out'.inp.attempt_id
          /\ sessions[first].challenge_buffer.challenge_id = out'.inp.challenge_id)
         => /\ pc'[c] = "open"
            /\ Len(out'.msgs) >= 1
            /\ out'.msgs[1].msg.type = "challengeResult"
            /\ out'.msgs[1].msg.analysis.processing_time_ms
                  = now - sessions[first].challenge_buffer.start_time
            /\ Resolved(sessions'[first]) = Resolved(sessions[first]) + 1]_vars

\* C40: whenever a new prompt is issued by a step that resolves a challenge
\* (streaming admission, buffered pass, buffered fail, feedback), motion_hits is
\* zero and both histories are empty afterwards.
C40_NewPromptResetsTelemetry ==
    [][\A i \in DOMAIN sessions :
         (/\ Resolved(sessions'[i]) = Resolved(sessions[i]) + 1
          /\ sessions'[i].fsm.state.state = "Prompting")
         => /\ sessions'[i].tele.motion_hits = 0
            /\ sessions'[i].tele.motion_scores = <<>>
            /\ sessions'[i].tele.face_positions = <<>>]_vars

====
